---- MODULE Spec2Model ----
(***************************************************************************)
(* A model of app.py, the Streamlit script that turns uploaded stop tables *)
(* into a folium map with walking isochrones.  One run of the script is    *)
(* one behaviour: the widgets' values are the inputs, and the script's     *)
(* loops advance one iteration per step.                                   *)
(***************************************************************************)
EXTENDS Integers, Sequences, FiniteSets, TLC

VARIABLES
    uploaded_files,     \* st.file_uploader's value: the files, in upload order
    selection,          \* st.multiselect's value, in selection order
    walking_speed_mps,  \* st.number_input's value
    time_ranges,        \* the thresholds in use (minutes)
    pc,                 \* where the script is
    idx,                \* position of the ingestion loop (1-based)
    routes,             \* the dict route_name -> dataframe, in insertion order
    route_icons,        \* the dict route_name -> icon
    center,             \* <<center_lat, center_lon>>, << >> before line 119
    colors,             \* the dict threshold -> colour
    route_idx,          \* position of the route loop (1-based)
    stop_i,             \* position of the stop loop within the route (1-based)
    route_groups,       \* names of the route FeatureGroups added to the map
    markers,            \* the markers added to route groups
    polygons,           \* the GeoJson polygons of stop groups added to the map
    osm,                \* what the network library answered at each stop
    messages,           \* st.info / st.warning / st.error / st.success calls
    legend,             \* the legend's swatches, << >> before line 219
    shown               \* st_folium and st.download_button were reached

vars == <<uploaded_files, selection, walking_speed_mps, time_ranges, pc, idx,
          routes, route_icons, center, colors, route_idx, stop_i,
          route_groups, markers, polygons, osm, messages, legend, shown>>

----------------------------------------------------------------------------
(* Text.  A Python str is a sequence of one-character strings.             *)

\* str.lower on one character (the letters the inputs use)
LowerChar(c) ==
    CASE c = "A" -> "a"
      [] c = "L" -> "l"
      [] c = "N" -> "n"
      [] c = "O" -> "o"
      [] c = "T" -> "t"
      [] OTHER -> c

\* str.lower
Lower(s) == [j \in 1..Len(s) |-> LowerChar(s[j])]

RECURSIVE LStrip(_)
LStrip(s) == IF s # << >> /\ Head(s) = " " THEN LStrip(Tail(s)) ELSE s

RECURSIVE RStrip(_)
RStrip(s) ==
    IF s # << >> /\ s[Len(s)] = " " THEN RStrip(SubSeq(s, 1, Len(s) - 1)) ELSE s

\* str.strip
Strip(s) == RStrip(LStrip(s))

\* str.rfind("."), 1-based, 0 when there is none
LastDot(s) ==
    IF \E j \in 1..Len(s) : s[j] = "."
    THEN CHOOSE j \in 1..Len(s) :
             s[j] = "." /\ \A k \in (j + 1)..Len(s) : s[k] # "."
    ELSE 0

\* pathlib.Path(name).stem for a name without directories
Stem(name) ==
    IF 1 < LastDot(name) /\ LastDot(name) < Len(name)
    THEN SubSeq(name, 1, LastDot(name) - 1)
    ELSE name

LAT == <<"l", "a", "t">>
LON == <<"l", "o", "n">>

----------------------------------------------------------------------------
(* Tables.  A column label is text or, from a spreadsheet header cell that *)
(* holds a number, an int.  A cell is a number or text.                      *)

StrLabel(s) == [k |-> "str", s |-> s]
IntLabel    == [k |-> "int", s |-> << >>]

Num(v)  == [k |-> "num", v |-> v]
Txt     == [k |-> "txt", v |-> 0]

DataFrame(columns, rows) == [columns |-> columns, rows |-> rows]

UploadedFile(name, readable, df) == [name |-> name, readable |-> readable, df |-> df]

----------------------------------------------------------------------------
(* Program constants                                                       *)

DEFAULT_TIME_RANGES == <<5, 10>>

DEFAULT_ROUTE_ICONS == <<"3448316.png", "3448339.png", "3448316.png">>

YELLOW == "#fff700"
BLUE   == "#1f77b4"

----------------------------------------------------------------------------
(* Inputs: the uploads and the sidebar settings of one run                 *)

MaxFiles == 3

MaxIconFiles == 5

Name(stem, ext) == stem \o <<".">> \o ext

CSV  == <<"c", "s", "v">>
XLSX == <<"x", "l", "s", "x">>

PlainColumns == <<StrLabel(LAT), StrLabel(LON)>>

\* a.csv: padded, upper-case labels, a name column, two stops
FileA ==
    UploadedFile(Name(<<"a">>, CSV), TRUE,
        DataFrame(<<StrLabel(<<" ", "L", "a", "t">>),
                    StrLabel(<<"L", "O", "N", " ">>),
                    StrLabel(<<"n", "a", "m", "e">>)>>,
                  <<<<Num(14), Num(121), Txt>>, <<Num(15), Num(122), Txt>>>>))

\* b.csv: one stop
FileB ==
    UploadedFile(Name(<<"b">>, CSV), TRUE,
        DataFrame(PlainColumns, <<<<Num(16), Num(123)>>>>))

\* a.xlsx: the stem of a.csv, lon before lat, one stop
FileA2 ==
    UploadedFile(Name(<<"a">>, XLSX), TRUE,
        DataFrame(<<StrLabel(LON), StrLabel(LAT)>>, <<<<Num(124), Num(17)>>>>))

\* c.csv: pandas cannot parse it
FileUnreadable ==
    UploadedFile(Name(<<"c">>, CSV), FALSE, DataFrame(<< >>, << >>))

\* b.xlsx: the stem of b.csv, no lon column
FileNoLon ==
    UploadedFile(Name(<<"b">>, XLSX), TRUE,
        DataFrame(<<StrLabel(LAT), StrLabel(<<"n", "a", "m", "e">>)>>,
                  <<<<Num(18), Txt>>>>))

\* d.xlsx: a header row of numbers
FileIntHeader ==
    UploadedFile(Name(<<"d">>, XLSX), TRUE,
        DataFrame(<<IntLabel, IntLabel>>, <<<<Num(19), Num(125)>>>>))

\* e.csv: the columns and no rows
FileEmpty ==
    UploadedFile(Name(<<"e">>, CSV), TRUE, DataFrame(PlainColumns, << >>))

\* f.csv: a lat cell that is not a number
FileTextCell ==
    UploadedFile(Name(<<"f">>, CSV), TRUE,
        DataFrame(PlainColumns, <<<<Txt, Num(126)>>>>))

\* h.csv, k.csv: the columns and no rows
FileH ==
    UploadedFile(Name(<<"h">>, CSV), TRUE, DataFrame(PlainColumns, << >>))

FileK ==
    UploadedFile(Name(<<"k">>, CSV), TRUE, DataFrame(PlainColumns, << >>))

Catalogue ==
    {FileA, FileB, FileA2, FileUnreadable, FileNoLon, FileIntHeader,
     FileEmpty, FileTextCell}

IconCatalogue == {FileB, FileEmpty, FileH, FileK, FileNoLon, FileUnreadable}

SeqsUpTo(S, n) == UNION {[1..m -> S] : m \in 0..n}

\* sequences of at most n distinct members of S
Distinct(S, n) ==
    {s \in SeqsUpTo(S, n) : \A j, k \in 1..Len(s) : j # k => s[j] # s[k]}

\* the multiselect offers 1..10, 15, 20, 30; these three are modelled
TimeOptions == {1, 5, 10}

\* a multiselect value: distinct options, in the order they were picked
Selections == Distinct(TimeOptions, Cardinality(TimeOptions))

\* metres per second; the default 1.33 is modelled by 2
WalkingSpeeds == {0, 2}

----------------------------------------------------------------------------
(* The walk network.  ox.graph_from_point answers with a graph or raises;  *)
(* ox.distance.nearest_nodes answers with a node or raises.  A graph is a  *)
(* chain of nodes 1 .. n+1 whose node 1 is the one nearest_nodes returns,  *)
(* and length[e] is the "length" of the edge from node e to node e+1.      *)

Graph(length) == [length |-> length]

NoGraph == Graph(<< >>)

Graphs == {Graph(<<60, 60>>), Graph(<<240, 480, 1200>>)}

OsmAnswers ==
    {[fetch |-> "failed", nearest |-> "none", G |-> NoGraph]}
    \cup [fetch : {"ok"}, nearest : {"ok", "failed"}, G : Graphs]

----------------------------------------------------------------------------
(* Helpers of the script                                                   *)

Say(level, text) == Append(messages, <<level, text>>)

None == [none |-> TRUE]

\* read_file_to_df: the table the parser chosen by the extension returns, or
\* None when it raises
read_file_to_df(f) == IF f.readable THEN f.df ELSE None

\* line 94 calls c.strip() on every label: an int has no strip
StripRaises(df) == \E j \in 1..Len(df.columns) : df.columns[j].k # "str"

\* lines 94-95: labels stripped, then stripped and lower-cased
df_lower(df) ==
    DataFrame([j \in 1..Len(df.columns) |-> Lower(Strip(Strip(df.columns[j].s)))],
              df.rows)

ColumnSet(df) == {df.columns[j] : j \in 1..Len(df.columns)}

\* line 97
HasRequired(df) == {LAT, LON} \subseteq ColumnSet(df)

\* row[label]: the cell under the first column with that label
Cell(df, row, label) ==
    row[CHOOSE j \in 1..Len(df.columns) :
            df.columns[j] = label /\ \A k \in 1..(j - 1) : df.columns[k] # label]

\* routes[route_name] = df: a new key goes last, a known key keeps its place
DictPut(d, name, df) ==
    IF \E j \in 1..Len(d) : d[j].name = name
    THEN [j \in 1..Len(d) |->
             IF d[j].name = name THEN [name |-> name, df |-> df] ELSE d[j]]
    ELSE Append(d, [name |-> name, df |-> df])

\* the 0-based position enumerate(routes.keys()) gives a route name
KeyIndex(d, name) == (CHOOSE j \in 1..Len(d) : d[j].name = name) - 1

\* a bug: the rotation starts one entry late
RouteIconsShifted(d) ==
    [name \in {d[j].name : j \in 1..Len(d)} |->
        DEFAULT_ROUTE_ICONS[((KeyIndex(d, name) + 1) % Len(DEFAULT_ROUTE_ICONS)) + 1]]

\* lines 109-112
RouteIcons(d) ==
    [name \in {d[j].name : j \in 1..Len(d)} |->
        DEFAULT_ROUTE_ICONS[(KeyIndex(d, name) % Len(DEFAULT_ROUTE_ICONS)) + 1]]

Range(s) == {s[j] : j \in 1..Len(s)}

Min(s) == CHOOSE t \in Range(s) : \A u \in Range(s) : t <= u

Max(s) == CHOOSE t \in Range(s) : \A u \in Range(s) : t >= u

\* a bug: the first selected threshold is taken for the minimum
ColorsFirstSelected(trs) ==
    [t \in Range(trs) |-> IF t = trs[1] THEN YELLOW ELSE BLUE]

\* lines 123-129
Colors(trs) ==
    LET first == [t \in Range(trs) |-> IF t = Min(trs) THEN YELLOW ELSE BLUE]
    IN  IF Len(trs) > 2
        THEN [t \in Range(trs) |-> IF t # Min(trs) THEN BLUE ELSE first[t]]
        ELSE first

\* lines 170-172: data["time"] = data["length"] / walking_speed_mps
EdgeTimes(G, speed) == [e \in 1..Len(G.length) |-> G.length[e] \div speed]

RECURSIVE PathTime(_, _)
PathTime(times, n) == IF n <= 1 THEN 0 ELSE PathTime(times, n - 1) + times[n - 1]

\* line 184: nx.ego_graph(G, center_node, radius=sec, distance="time")
EgoNodes(times, sec) == {n \in 1..(Len(times) + 1) : PathTime(times, n) <= sec}

\* lines 193-202: the lambda binds m to this iteration's t
GeoJson(r, i, t, cols) == [r |-> r, i |-> i, t |-> t, color |-> cols[t]]

\* a bug: a threshold with fewer than 3 points ends the threshold loop (break)
RECURSIVE IsochronesBreak(_, _, _, _, _)
IsochronesBreak(trs, times, r, i, cols) ==
    IF trs = << >> THEN {}
    ELSE LET t   == Head(trs)
             sec == t * 60
             pts == EgoNodes(times, sec)
         IN  IF Cardinality(pts) < 3
             THEN {}
             ELSE {GeoJson(r, i, t, cols)}
                  \cup IsochronesBreak(Tail(trs), times, r, i, cols)

\* lines 182-202: the threshold loop of one stop
RECURSIVE Isochrones(_, _, _, _, _)
Isochrones(trs, times, r, i, cols) ==
    IF trs = << >> THEN {}
    ELSE LET t   == Head(trs)
             sec == t * 60
             pts == EgoNodes(times, sec)
         IN  IF Cardinality(pts) < 3
             THEN Isochrones(Tail(trs), times, r, i, cols)
             ELSE {GeoJson(r, i, t, cols)}
                  \cup Isochrones(Tail(trs), times, r, i, cols)

----------------------------------------------------------------------------
(* The run                                                                 *)

Terminal == {"prompt", "no_routes", "done", "crashed"}

InitWith(files, selections, speeds) ==
    /\ uploaded_files \in files
    /\ selection \in selections
    /\ walking_speed_mps \in speeds
    /\ time_ranges = selection
    /\ pc = "start"
    /\ idx = 1
    /\ routes = << >>
    /\ route_icons = << >>
    /\ center = << >>
    /\ colors = << >>
    /\ route_idx = 1
    /\ stop_i = 1
    /\ route_groups = << >>
    /\ markers = {}
    /\ polygons = {}
    /\ osm = << >>
    /\ messages = << >>
    /\ legend = << >>
    /\ shown = FALSE

\* the uploads of a run are distinct files
Init == InitWith(Distinct(Catalogue, MaxFiles), Selections, WalkingSpeeds)

\* lines 58-59 and 80-83
Start ==
    /\ pc = "start"
    /\ time_ranges' = IF time_ranges = << >> THEN DEFAULT_TIME_RANGES ELSE time_ranges
    /\ IF uploaded_files = << >>
       THEN /\ messages' = Say("info", "Upload CSV or Excel files")
            /\ pc' = "prompt"
       ELSE /\ messages' = messages
            /\ pc' = "read"
    /\ UNCHANGED <<uploaded_files, selection, walking_speed_mps, idx, routes,
                   route_icons, center, colors, route_idx, stop_i, route_groups,
                   markers, polygons, osm, legend, shown>>

\* lines 87-102: one iteration of the ingestion loop
ReadFile ==
    /\ pc = "read"
    /\ idx <= Len(uploaded_files)
    /\ LET f  == uploaded_files[idx]
           df == read_file_to_df(f)
       IN  IF df = None
           THEN /\ messages' = Append(Say("error", "Failed to read"),
                                      <<"warning", "Could not read">>)
                /\ idx' = idx + 1
                /\ UNCHANGED <<pc, routes>>
           ELSE IF StripRaises(df)
           THEN /\ pc' = "crashed"
                /\ UNCHANGED <<idx, routes, messages>>
           ELSE IF ~HasRequired(df_lower(df))
           THEN /\ messages' = Say("error", "must contain 'lat' and 'lon'")
                /\ idx' = idx + 1
                /\ UNCHANGED <<pc, routes>>
           ELSE /\ routes' = DictPut(routes, Stem(f.name), df_lower(df))
                /\ idx' = idx + 1
                /\ UNCHANGED <<pc, messages>>
    /\ UNCHANGED <<uploaded_files, selection, walking_speed_mps, time_ranges,
                   route_icons, center, colors, route_idx, stop_i, route_groups,
                   markers, polygons, osm, legend, shown>>

\* a bug: the guard of line 104 is missing
CheckRoutesNoGuard ==
    /\ pc = "read"
    /\ idx > Len(uploaded_files)
    /\ messages' = messages
    /\ pc' = "icons"
    /\ UNCHANGED <<uploaded_files, selection, walking_speed_mps, time_ranges, idx,
                   routes, route_icons, center, colors, route_idx, stop_i,
                   route_groups, markers, polygons, osm, legend, shown>>

\* lines 104-106
CheckRoutes ==
    /\ pc = "read"
    /\ idx > Len(uploaded_files)
    /\ IF routes = << >>
       THEN /\ messages' = Say("error", "No valid routes uploaded.")
            /\ pc' = "no_routes"
       ELSE /\ messages' = messages
            /\ pc' = "icons"
    /\ UNCHANGED <<uploaded_files, selection, walking_speed_mps, time_ranges, idx,
                   routes, route_icons, center, colors, route_idx, stop_i,
                   route_groups, markers, polygons, osm, legend, shown>>

\* float(cell) raises ValueError on text
FloatRaises(cell) == cell.k # "num"

\* lines 108-133: the icons, the map centre, the colours
Compose ==
    /\ pc = "icons"
    /\ route_icons' = RouteIcons(routes)
    /\ IF routes = << >>
       THEN \* next(iter(routes.values())) raises StopIteration
            /\ pc' = "crashed"
            /\ UNCHANGED <<center, colors, messages>>
       ELSE LET first_route_df == routes[1].df
            IN  IF first_route_df.rows = << >>
                THEN \* .iloc[0] raises IndexError
                     /\ pc' = "crashed"
                     /\ UNCHANGED <<center, colors, messages>>
                ELSE LET row == first_route_df.rows[1]
                         lat == Cell(first_route_df, row, LAT)
                         lon == Cell(first_route_df, row, LON)
                     IN  IF FloatRaises(lat) \/ FloatRaises(lon)
                         THEN /\ pc' = "crashed"
                              /\ UNCHANGED <<center, colors, messages>>
                         ELSE /\ center' = <<lat.v, lon.v>>
                              /\ colors' = Colors(time_ranges)
                              /\ messages' = Say("info", "Generating map")
                              /\ pc' = "route"
    /\ UNCHANGED <<uploaded_files, selection, walking_speed_mps, time_ranges, idx,
                   routes, route_idx, stop_i, route_groups, markers, polygons,
                   osm, legend, shown>>

\* lines 135-141: the head of one iteration of the route loop
BeginRoute ==
    /\ pc = "route"
    /\ route_idx <= Len(routes)
    /\ route_groups' = Append(route_groups, routes[route_idx].name)
    /\ IF routes[route_idx].df.rows = << >>
       THEN /\ route_idx' = route_idx + 1
            /\ UNCHANGED <<pc, stop_i>>
       ELSE /\ pc' = "stops"
            /\ stop_i' = 1
            /\ UNCHANGED route_idx
    /\ UNCHANGED <<uploaded_files, selection, walking_speed_mps, time_ranges, idx,
                   routes, route_icons, center, colors, markers, polygons, osm,
                   messages, legend, shown>>

\* the stop loop moves on: the next row, or the next route after the last row
NextStop ==
    IF stop_i < Len(routes[route_idx].df.rows)
    THEN /\ stop_i' = stop_i + 1
         /\ UNCHANGED <<pc, route_idx>>
    ELSE /\ route_idx' = route_idx + 1
         /\ pc' = "route"
         /\ UNCHANGED stop_i

\* a bug: the failed stop ends its route's stop loop (break)
ContinueAsBreak ==
    /\ route_idx' = route_idx + 1
    /\ pc' = "route"
    /\ UNCHANGED stop_i

\* lines 168 and 179: continue
Continue == NextStop

\* lines 144-205: one iteration of the stop loop
ProcessStop ==
    /\ pc = "stops"
    /\ \E answer \in OsmAnswers :
        LET df  == routes[route_idx].df
            row == df.rows[stop_i]
            lat == Cell(df, row, LAT)
            lon == Cell(df, row, LON)
            marker == [r |-> route_idx, i |-> stop_i, lat |-> lat.v, lon |-> lon.v,
                       icon |-> route_icons[routes[route_idx].name]]
            seen(nearest) == Append(osm, [r |-> route_idx, i |-> stop_i,
                                          fetch |-> answer.fetch,
                                          nearest |-> nearest, G |-> answer.G])
        IN  IF FloatRaises(lat) \/ FloatRaises(lon)
            THEN \* lines 148-149
                 /\ pc' = "crashed"
                 /\ UNCHANGED <<route_idx, stop_i, markers, polygons, osm, messages>>
            ELSE /\ markers' = markers \cup {marker}
                 /\ IF answer.fetch = "failed"
                    THEN \* lines 166-168
                         /\ messages' = Say("warning", "OSMnx graph failed")
                         /\ osm' = seen("none")
                         /\ polygons' = polygons
                         /\ Continue
                    ELSE IF walking_speed_mps = 0
                    THEN \* line 172 raises ZeroDivisionError
                         /\ pc' = "crashed"
                         /\ osm' = seen("none")
                         /\ UNCHANGED <<route_idx, stop_i, polygons, messages>>
                    ELSE IF answer.nearest = "failed"
                    THEN \* lines 177-179
                         /\ messages' = Say("warning", "Nearest node failed")
                         /\ osm' = seen("failed")
                         /\ polygons' = polygons
                         /\ Continue
                    ELSE /\ polygons' = polygons \cup
                              Isochrones(time_ranges,
                                         EdgeTimes(answer.G, walking_speed_mps),
                                         route_idx, stop_i, colors)
                         /\ osm' = seen("ok")
                         /\ messages' = messages
                         /\ NextStop
    /\ UNCHANGED <<uploaded_files, selection, walking_speed_mps, time_ranges, idx,
                   routes, route_icons, center, colors, route_groups, legend, shown>>

\* lines 212-219
Legend(trs) == <<[color |-> YELLOW, t |-> Min(trs)], [color |-> BLUE, t |-> Max(trs)]>>

\* lines 207-238: the legend, the success message, the view and the download
Finish ==
    /\ pc = "route"
    /\ route_idx > Len(routes)
    /\ legend' = Legend(time_ranges)
    /\ messages' = Say("success", "Map generation completed.")
    /\ shown' = TRUE
    /\ pc' = "done"
    /\ UNCHANGED <<uploaded_files, selection, walking_speed_mps, time_ranges, idx,
                   routes, route_icons, center, colors, route_idx, stop_i,
                   route_groups, markers, polygons, osm>>

Next == Start \/ ReadFile \/ CheckRoutes \/ Compose \/ BeginRoute \/ ProcessStop \/ Finish

Spec == Init /\ [][Next]_vars

\* runs for the icon rotation: more uploads, fixed settings
InitIcons == InitWith(Distinct(IconCatalogue, MaxIconFiles), {<<5>>}, {2})

SpecIcons == InitIcons /\ [][Next]_vars

----------------------------------------------------------------------------
(* What the properties speak of                                            *)

\* the text labels of an upload, trimmed and lower-cased
NormalizedLabels(f) ==
    {Lower(Strip(f.df.columns[j].s)) :
        j \in {k \in 1..Len(f.df.columns) : f.df.columns[k].k = "str"}}

\* an upload that parsed and has both required columns
Accepted(f) == f.readable /\ LAT \in NormalizedLabels(f) /\ LON \in NormalizedLabels(f)

AcceptedIdx == {k \in 1..Len(uploaded_files) : Accepted(uploaded_files[k])}

RouteNames == {routes[j].name : j \in 1..Len(routes)}

Composing == pc \in {"icons", "route", "stops", "done"}

NothingComposed ==
    /\ route_icons = << >>
    /\ center = << >>
    /\ route_groups = << >>
    /\ markers = {}
    /\ polygons = {}
    /\ legend = << >>
    /\ ~shown

Failed(e) == e.fetch = "failed" \/ e.nearest = "failed"

HasMarker(r, i) == \E mk \in markers : mk.r = r /\ mk.i = i

HasPolygon(r, i, t) == \E p \in polygons : p.r = r /\ p.i = i /\ p.t = t

IsMinimum(t) == \A u \in Range(time_ranges) : t <= u

RECURSIVE SumTo(_, _)
SumTo(s, n) == IF n = 0 THEN 0 ELSE SumTo(s, n - 1) + s[n]

\* the nodes of G within t minutes of node 1 at the configured speed
Reachable(G, t) ==
    {n \in 1..(Len(G.length) + 1) :
        SumTo(G.length, n - 1) <= t * 60 * walking_speed_mps}

----------------------------------------------------------------------------
(* Properties                                                              *)

\* C1: when the run has ended, every accepted upload has a route under its
\* filename stem, and every route is the table of an accepted upload: a
\* rejected upload contributes nothing and stops no later upload.
C1_RejectedSkippedRestIngested ==
    pc \in Terminal =>
        /\ \A k \in AcceptedIdx : Stem(uploaded_files[k].name) \in RouteNames
        /\ \A j \in 1..Len(routes) : \E k \in AcceptedIdx :
               /\ routes[j].name = Stem(uploaded_files[k].name)
               /\ routes[j].df = df_lower(uploaded_files[k].df)

\* C2: a run whose ingestion loop read every upload and kept at least one
\* route ends with "Map generation completed", whatever the rows and the
\* settings are.
C2_RunCompletes ==
    (pc \in Terminal /\ idx > Len(uploaded_files) /\ routes # << >>) => pc = "done"

\* C3: a stop whose network fetch or nearest-node lookup failed has its
\* marker and no polygon; the failing step moves on to the next stop or
\* route and leaves every other marker and polygon in place; no step ever
\* removes a marker or a polygon; a completed run has a marker for every
\* row of every route.
C3_FailedStopSkipped ==
    /\ [](\A n \in 1..Len(osm) :
            Failed(osm[n]) =>
                /\ HasMarker(osm[n].r, osm[n].i)
                /\ \A t \in Range(time_ranges) : ~HasPolygon(osm[n].r, osm[n].i, t))
    /\ [](pc = "done" =>
            \A r \in 1..Len(routes) : \A i \in 1..Len(routes[r].df.rows) :
                HasMarker(r, i))
    /\ [][/\ markers \subseteq markers'
          /\ polygons \subseteq polygons'
          /\ (Len(osm') = Len(osm) + 1 /\ Failed(osm'[Len(osm')])) =>
                /\ pc' \in {"stops", "route"}
                /\ <<route_idx', stop_i'>> # <<route_idx, stop_i>>
                /\ polygons' = polygons
                /\ Cardinality(markers') = Cardinality(markers) + 1]_vars

C3_Witness ==
    /\ Len(osm) >= 3
    /\ Failed(osm[1])
    /\ osm[2].r = osm[1].r /\ ~Failed(osm[2])
    /\ \E t \in Range(time_ranges) : HasPolygon(osm[2].r, osm[2].i, t)
    /\ osm[3].r # osm[1].r
    /\ HasMarker(osm[3].r, osm[3].i)

\* C4: for every stop processed and every threshold in use, the map holds a
\* polygon for the pair exactly when the fetch and the lookup succeeded and
\* at least 3 nodes are reachable within the threshold; the stop has its
\* marker either way, and there is no polygon for anything else.
C4_PolygonIffThreeReachable ==
    /\ \A n \in 1..Len(osm) :
        /\ HasMarker(osm[n].r, osm[n].i)
        /\ \A t \in Range(time_ranges) :
             HasPolygon(osm[n].r, osm[n].i, t) <=>
                 /\ osm[n].fetch = "ok"
                 /\ osm[n].nearest = "ok"
                 /\ Cardinality(Reachable(osm[n].G, t)) >= 3
    /\ \A p \in polygons :
        /\ p.t \in Range(time_ranges)
        /\ \E n \in 1..Len(osm) : osm[n].r = p.r /\ osm[n].i = p.i

C4_Witness ==
    \E n \in 1..Len(osm) : \E a, b \in 1..Len(time_ranges) :
        /\ a < b
        /\ osm[n].fetch = "ok" /\ osm[n].nearest = "ok"
        /\ Cardinality(Reachable(osm[n].G, time_ranges[a])) < 3
        /\ ~HasPolygon(osm[n].r, osm[n].i, time_ranges[a])
        /\ HasPolygon(osm[n].r, osm[n].i, time_ranges[b])
        /\ HasMarker(osm[n].r, osm[n].i)

\* C5: the thresholds in use are the selection, or 5 and 10 for an empty
\* selection; the colour map gives #fff700 to the minimum threshold alone
\* and #1f77b4 to every other; every polygon has the colour of its own
\* threshold.
C5_MinimumHighlighted ==
    /\ pc # "start" =>
          time_ranges = IF selection = << >> THEN <<5, 10>> ELSE selection
    /\ pc \in {"route", "stops", "done"} =>
          /\ DOMAIN colors = Range(time_ranges)
          /\ \A t \in Range(time_ranges) :
                colors[t] = IF IsMinimum(t) THEN "#fff700" ELSE "#1f77b4"
    /\ \A p \in polygons :
          p.color = IF IsMinimum(p.t) THEN "#fff700" ELSE "#1f77b4"

C5_Witness ==
    /\ Len(selection) = 3
    /\ ~IsMinimum(selection[1])
    /\ \E p, q \in polygons :
          /\ p.r = q.r /\ p.i = q.i
          /\ p.color = "#fff700" /\ IsMinimum(p.t)
          /\ q.color = "#1f77b4" /\ q.t = selection[1]

\* C6 as claimed: the route of the upload at 0-based position k has the icon
\* DEFAULT_ROUTE_ICONS[k mod 3].
C6_IconByUploadPosition ==
    pc \in {"route", "stops", "done"} =>
        \A k \in AcceptedIdx :
            route_icons[Stem(uploaded_files[k].name)] =
                DEFAULT_ROUTE_ICONS[((k - 1) % 3) + 1]

\* C6 as amended: the route at 0-based position j of the route set has the
\* icon DEFAULT_ROUTE_ICONS[j mod 3], and only routes have icons.
C6_IconByRoutePosition ==
    pc \in {"route", "stops", "done", "crashed"} /\ idx > Len(uploaded_files) =>
        /\ DOMAIN route_icons = RouteNames
        /\ \A j \in 1..Len(routes) :
              route_icons[routes[j].name] = DEFAULT_ROUTE_ICONS[((j - 1) % 3) + 1]

C6_Witness ==
    /\ pc = "done"
    /\ Len(routes) = 4
    /\ ~Accepted(uploaded_files[1])
    /\ route_icons[routes[2].name] = "3448339.png"
    /\ route_icons[routes[4].name] = "3448316.png"

C8_OneRoutePerAcceptedFile ==
    Composing =>
        /\ Len(routes) = Cardinality(AcceptedIdx)
        /\ \A k \in AcceptedIdx : \E j \in 1..Len(routes) :
              /\ routes[j].name = Stem(uploaded_files[k].name)
              /\ routes[j].df.rows = uploaded_files[k].df.rows

\* C9: a polygon for a threshold the legend labels has the colour of that
\* swatch.
C9_LegendMatchesPolygons ==
    \A n \in 1..Len(legend) : \A p \in polygons :
        p.t = legend[n].t => p.color = legend[n].color

\* C10: the map centre is the first row's lat and lon of the first accepted
\* upload.
C10_CentreFromFirstAcceptedFile ==
    center # << >> =>
        LET k  == CHOOSE a \in AcceptedIdx : \A b \in AcceptedIdx : a <= b
            df == df_lower(uploaded_files[k].df)
        IN  center = <<Cell(df, df.rows[1], LAT).v, Cell(df, df.rows[1], LON).v>>

====
